---- MODULE Spec2Model ----
(***************************************************************************)
(* A model of the client-side code of the docstring-generation web tool:   *)
(*   - the log/export aggregator (src/src/web/static/js/log_export.js):    *)
(*     the process-wide logData object, the recorders, clearLogs and       *)
(*     exportLogs with its three formatters;                               *)
(*   - the config binder (src/unnamed/part_000, the second, later          *)
(*     declarations of the file, which are the ones in force):             *)
(*     loadDefaultConfig, applyConfigToForm, buildConfigFromForm and       *)
(*     updateProviderLimitsDisplay.                                        *)
(*                                                                         *)
(* Text is modelled as a sequence of symbols.  The characters that the     *)
(* formatters treat specially (the double quote, the comma, the newline,   *)
(* the backslash, digits, the decimal point) are symbols of their own; a   *)
(* fixed piece of a template literal that holds none of them is one        *)
(* symbol.                                                                 *)
(***************************************************************************)
EXTENDS FiniteSets, Integers, Sequences, TLC

\* ------------------------------------------------------------------ bounds

\* The number of records the three collections hold together.
MaxRecords == 3
\* The default-config requests in flight at a time.
MaxPending == 1
\* The edits the user makes to the form.
MaxEdits == 1

\* ------------------------------------------------------------------ text

Q == "\""
COMMA == ","
NL == "\n"
BSL == "\\"

DigitChars == <<"0", "1", "2", "3", "4", "5", "6", "7", "8", "9">>

RECURSIVE NatToStr(_)
\* String(n) for a non-negative integer n.
NatToStr(n) ==
    IF n < 10 THEN <<DigitChars[n + 1]>>
    ELSE NatToStr(n \div 10) \o <<DigitChars[(n % 10) + 1]>>

RECURSIVE ReplaceAll(_, _, _)
\* s.replace(/c/g, by): every occurrence of the symbol c replaced by the text by.
ReplaceAll(s, c, by) ==
    IF s = <<>> THEN <<>>
    ELSE (IF Head(s) = c THEN by ELSE <<Head(s)>>) \o ReplaceAll(Tail(s), c, by)

RECURSIVE Concat(_)
\* The concatenation of a sequence of texts.
Concat(ss) == IF ss = <<>> THEN <<>> ELSE Head(ss) \o Concat(Tail(ss))

RECURSIVE Join(_, _)
\* Array.prototype.join: the texts of ss with sep between them.
Join(ss, sep) ==
    IF ss = <<>> THEN <<>>
    ELSE IF Len(ss) = 1 THEN ss[1]
    ELSE ss[1] \o sep \o Join(Tail(ss), sep)

Last(s) == s[Len(s)]

\* ------------------------------------------------------------- JS values

JNull == [t |-> "null"]
JUndef == [t |-> "undefined"]
JStr(s) == [t |-> "str", v |-> s]
JBool(b) == [t |-> "bool", v |-> b]
JDate == [t |-> "date"]

\* new Date().toISOString(): a text without quote, comma or newline.
ISONow == <<"2026-01-01T00:00:00.000Z">>
\* new Date().toISOString().replace(/[:.]/g, '-').slice(0, -5)
FileStamp == <<"2026-01-01T00-00-00">>
\* String(new Date()), as a template literal renders a Date object.
DateText == <<"Thu Jan 01 2026 00:00:00 GMT+0000">>

\* JS truthiness of the values the aggregator tests.
Truthy(x) ==
    CASE x.t = "null" -> FALSE
      [] x.t = "undefined" -> FALSE
      [] x.t = "str" -> x.v # <<>>
      [] x.t = "bool" -> x.v
      [] x.t = "num" -> x.v # 0
      [] OTHER -> TRUE

\* ----------------------------------------------------- aggregator: state

VARIABLES
    logData,        \* the process-wide logData object
    logContent,     \* what #log-content displays
    modalOpen,      \* whether the export modal is shown
    shown,          \* the showMessage calls of the handler that ran last
    file,           \* the downloadFile call of the handler that ran last
    form,           \* the value of every bound form control
    limitsDisplay,  \* what #provider-limits-display shows
    limitsHandlers, \* whether the change handlers of the limits display are bound
    pending,        \* the default-config requests in flight
    edits,          \* the user's edits of the form so far
    built,          \* what buildConfigFromForm returned last
    lastOp          \* the handler that ran last, with its inputs

aggVars == <<logData, logContent, modalOpen, file>>
binderVars == <<form, limitsDisplay, limitsHandlers, pending, edits, built>>
vars == <<logData, logContent, modalOpen, shown, file,
          form, limitsDisplay, limitsHandlers, pending, edits, built, lastOp>>

NoFile == [called |-> FALSE]

\* The logData literal, and the start time that initLogExport stamps at page load.
InitLogData ==
    [ logs |-> <<>>,
      apiCalls |-> <<>>,
      rateLimitEvents |-> <<>>,
      config |-> JNull,
      stats |-> [ startTime |-> JDate,
                  endTime |-> JNull,
                  totalComponents |-> 0,
                  processedComponents |-> 0,
                  errors |-> 0,
                  warnings |-> 0 ] ]

\* The number of records held, which the model bounds.
Records(ld) == Len(ld.logs) + Len(ld.apiCalls) + Len(ld.rateLimitEvents)

\* --------------------------------------------------- aggregator: recorders

\* What the recorders are called with.
A1 == <<"a">>
Q1 == <<Q>>
LogInputs ==
    { <<<<"INFO">>, A1>>, <<<<"WARNING">>, A1>>, <<<<"ERROR">>, Q1>>, <<Q1, A1>> }
ApiInputs ==
    { <<A1, A1, JNull>>, <<Q1, A1, JNull>>, <<A1, Q1, JStr(A1)>>, <<A1, A1, JStr(Q1)>> }
RATE_LIMIT_HIT == <<"RATE_LIMIT_HIT">>
RateInputs ==
    { <<RATE_LIMIT_HIT, A1, A1>>, <<RATE_LIMIT_HIT, Q1, Q1>>,
      <<<<"RATE_LIMIT_WARNING">>, A1, Q1>> }

\* addLogEntry that counts errors and leaves the warning counter alone.
addLogEntryErrorsOnly(ld, level, message, details) ==
    LET logEntry == [ timestamp |-> ISONow, level |-> level,
                      message |-> message, details |-> details ]
        pushed == [ld EXCEPT !.logs = Append(@, logEntry)]
    IN  IF level = <<"ERROR">>
        THEN [pushed EXCEPT !.stats.errors = @ + 1]
        ELSE pushed

addLogEntry(ld, level, message, details) ==
    LET logEntry == [ timestamp |-> ISONow,
                      level |-> level,
                      message |-> message,
                      details |-> details ]
        pushed == [ld EXCEPT !.logs = Append(@, logEntry)]
    IN  IF level = <<"ERROR">>
        THEN [pushed EXCEPT !.stats.errors = @ + 1]
        ELSE IF level = <<"WARNING">>
        THEN [pushed EXCEPT !.stats.warnings = @ + 1]
        ELSE pushed

addAPICallEntry(ld, provider, model, inputTokens, outputTokens, duration, error) ==
    LET apiEntry == [ timestamp |-> ISONow,
                      provider |-> provider,
                      model |-> model,
                      inputTokens |-> inputTokens,
                      outputTokens |-> outputTokens,
                      duration |-> duration,
                      error |-> error ]
    IN  [ld EXCEPT !.apiCalls = Append(@, apiEntry)]

\* addRateLimitEvent with the level of a limit that is hit left at INFO.
addRateLimitEventInfoOnly(ld, type, provider, limitType, currentUsage, limit, message) ==
    LET rateLimitEntry == [ timestamp |-> ISONow, type |-> type, provider |-> provider,
                            limitType |-> limitType, currentUsage |-> currentUsage,
                            limit |-> limit, message |-> message, level |-> <<"INFO">> ]
        pushed == [ld EXCEPT !.rateLimitEvents = Append(@, rateLimitEntry)]
    IN  [pushed EXCEPT !.logs = Append(@, [ timestamp |-> ISONow,
                                            level |-> <<"INFO">>,
                                            message |-> <<"Rate Limit Event: ">> \o message,
                                            details |-> JNull ])]

addRateLimitEvent(ld, type, provider, limitType, currentUsage, limit, message) ==
    LET rateLimitEntry == [ timestamp |-> ISONow,
                            type |-> type,
                            provider |-> provider,
                            limitType |-> limitType,
                            currentUsage |-> currentUsage,
                            limit |-> limit,
                            message |-> message,
                            level |-> IF type = RATE_LIMIT_HIT
                                      THEN <<"WARNING">> ELSE <<"INFO">> ]
        pushed == [ld EXCEPT !.rateLimitEvents = Append(@, rateLimitEntry)]
    IN  addLogEntry(pushed, rateLimitEntry.level,
                    <<"Rate Limit Event: ">> \o message, JNull)

updateConfigForExport(ld, config) == [ld EXCEPT !.config = config]

\* { ...logData.stats, ...stats }: the keys of both, the partial's values first.
updateProcessingStats(ld, stats) ==
    [ld EXCEPT !.stats =
        [k \in DOMAIN ld.stats \cup DOMAIN stats |->
            IF k \in DOMAIN stats THEN stats[k] ELSE ld.stats[k]]]

markProcessingComplete(ld) == [ld EXCEPT !.stats.endTime = JStr(ISONow)]

\* clearLogs that forgets the rate-limit events and the warning counter.
clearLogDataPartly(ld) ==
    [ld EXCEPT !.logs = <<>>, !.apiCalls = <<>>, !.stats.errors = 0]

\* The body of clearLogs once the user has confirmed.
clearLogData(ld) ==
    [ld EXCEPT !.logs = <<>>,
               !.apiCalls = <<>>,
               !.rateLimitEvents = <<>>,
               !.stats.errors = 0,
               !.stats.warnings = 0]

\* ------------------------------------------------ configuration records

(***************************************************************************)
(* A configuration record maps each section to a JS value: an object, or   *)
(* undefined when the record does not hold the section.  An object of a    *)
(* section maps each field to a JS value, undefined when it does not hold  *)
(* the field.  A number is held in tenths, so that 0.1 is JNum(1) and      *)
(* 4096 is JNum(40960).                                                    *)
(***************************************************************************)
JNum(tenths) == [t |-> "num", v |-> tenths]
JNaN == [t |-> "nan"]
JObj(o) == [t |-> "obj", v |-> o]

\* obj?.k: undefined when obj is not an object.
Get(obj, k) == IF obj.t = "obj" THEN obj.v[k] ELSE JUndef

\* String(x) of a number held in tenths.
NumToStr(tenths) ==
    IF tenths % 10 = 0 THEN NatToStr(tenths \div 10)
    ELSE NatToStr(tenths \div 10) \o <<".">> \o NatToStr(tenths % 10)

\* String(x), as .val(x) and a template literal render a value.
ToText(x) ==
    CASE x.t = "str" -> x.v
      [] x.t = "num" -> NumToStr(x.v)
      [] x.t = "bool" -> IF x.v THEN <<"true">> ELSE <<"false">>
      [] x.t = "null" -> <<"null">>
      [] x.t = "nan" -> <<"NaN">>
      [] x.t = "date" -> DateText
      [] OTHER -> <<"undefined">>

\* a || b
Or(a, b) == IF Truthy(a) THEN a ELSE b

SectionOrder == <<"llm", "flow_control", "docstring_options",
                  "current_provider_tier", "user_overrides">>
FieldOrder ==
    [ llm |-> <<"type", "api_key", "model", "temperature", "max_tokens">>,
      flow_control |-> <<"max_reader_search_attempts", "max_verifier_rejections",
                         "status_sleep_time">>,
      docstring_options |-> <<"overwrite_docstrings">>,
      user_overrides |-> <<"enable_conservative_limits", "max_components_per_minute",
                           "delay_between_requests", "enable_batch_processing",
                           "batch_size">> ]

\* ------------------------------------------------------ JSON.stringify

\* A string literal: the quote and the backslash escaped by a backslash.
JSONString(s) ==
    <<Q>> \o ReplaceAll(ReplaceAll(s, BSL, <<BSL, BSL>>), Q, <<BSL, Q>>) \o <<Q>>

JSONNat(n) == NatToStr(n)

\* A scalar; NaN and undefined array items stringify as null.
JSONScalar(x) ==
    CASE x.t = "str" -> JSONString(x.v)
      [] x.t = "num" -> NumToStr(x.v)
      [] x.t = "bool" -> IF x.v THEN <<"true">> ELSE <<"false">>
      [] x.t = "date" -> JSONString(ISONow)
      [] OTHER -> <<"null">>

JSONPair(k, text) == <<Q, k, Q, ":">> \o text

\* An object of the given members (a sequence of texts made by JSONPair).
JSONObject(members) == <<"{">> \o Join(members, <<COMMA>>) \o <<"}">>

JSONArray(items) == <<"[">> \o Join(items, <<COMMA>>) \o <<"]">>

\* The members of obj for the keys of order that obj holds.
RECURSIVE JSONScalarMembers(_, _)
JSONScalarMembers(obj, order) ==
    IF order = <<>> THEN <<>>
    ELSE (IF obj[Head(order)].t # "undefined"
          THEN <<JSONPair(Head(order), JSONScalar(obj[Head(order)]))>>
          ELSE <<>>) \o JSONScalarMembers(obj, Tail(order))

RECURSIVE JSONConfigMembers(_, _)
JSONConfigMembers(c, order) ==
    IF order = <<>> THEN <<>>
    ELSE LET k == Head(order) IN
         (IF c[k].t = "undefined" THEN <<>>
          ELSE IF c[k].t = "obj"
          THEN <<JSONPair(k, JSONObject(JSONScalarMembers(c[k].v, FieldOrder[k])))>>
          ELSE <<JSONPair(k, JSONScalar(c[k]))>>)
         \o JSONConfigMembers(c, Tail(order))

JSONConfig(config) ==
    IF config.t = "obj" THEN JSONObject(JSONConfigMembers(config.v, SectionOrder))
    ELSE <<"null">>

JSONLog(log) ==
    JSONObject(<< JSONPair("timestamp", JSONString(log.timestamp)),
                  JSONPair("level", JSONString(log.level)),
                  JSONPair("message", JSONString(log.message)),
                  JSONPair("details", JSONScalar(log.details)) >>)

JSONCall(call) ==
    JSONObject(<< JSONPair("timestamp", JSONString(call.timestamp)),
                  JSONPair("provider", JSONString(call.provider)),
                  JSONPair("model", JSONString(call.model)),
                  JSONPair("inputTokens", JSONNat(call.inputTokens)),
                  JSONPair("outputTokens", JSONNat(call.outputTokens)),
                  JSONPair("duration", JSONNat(call.duration)),
                  JSONPair("error", JSONScalar(call.error)) >>)

JSONEvent(event) ==
    JSONObject(<< JSONPair("timestamp", JSONString(event.timestamp)),
                  JSONPair("type", JSONString(event.type)),
                  JSONPair("provider", JSONString(event.provider)),
                  JSONPair("limitType", JSONString(event.limitType)),
                  JSONPair("currentUsage", JSONNat(event.currentUsage)),
                  JSONPair("limit", JSONNat(event.limit)),
                  JSONPair("message", JSONString(event.message)),
                  JSONPair("level", JSONString(event.level)) >>)

JSONStats(stats) ==
    JSONObject(<< JSONPair("startTime", JSONScalar(stats.startTime)),
                  JSONPair("endTime", JSONScalar(stats.endTime)),
                  JSONPair("totalComponents", JSONNat(stats.totalComponents)),
                  JSONPair("processedComponents", JSONNat(stats.processedComponents)),
                  JSONPair("errors", JSONNat(stats.errors)),
                  JSONPair("warnings", JSONNat(stats.warnings)) >>)

\* JSON.stringify(exportData, null, 2), without the white space of the indentation.
JSONStringify(data) ==
    JSONObject(
        << JSONPair("metadata",
              JSONObject(<< JSONPair("exportTime", JSONString(data.metadata.exportTime)),
                            JSONPair("format", JSONString(data.metadata.format)),
                            JSONPair("version", JSONString(data.metadata.version)) >>)) >>
        \o (IF "logs" \in DOMAIN data
            THEN <<JSONPair("logs",
                     JSONArray([i \in 1..Len(data.logs) |-> JSONLog(data.logs[i])]))>>
            ELSE <<>>)
        \o (IF "apiCalls" \in DOMAIN data
            THEN <<JSONPair("apiCalls",
                     JSONArray([i \in 1..Len(data.apiCalls) |-> JSONCall(data.apiCalls[i])]))>>
            ELSE <<>>)
        \o (IF "rateLimitEvents" \in DOMAIN data
            THEN <<JSONPair("rateLimitEvents",
                     JSONArray([i \in 1..Len(data.rateLimitEvents) |->
                                   JSONEvent(data.rateLimitEvents[i])]))>>
            ELSE <<>>)
        \o (IF "config" \in DOMAIN data
            THEN <<JSONPair("config", JSONConfig(data.config))>>
            ELSE <<>>)
        \o (IF "stats" \in DOMAIN data
            THEN <<JSONPair("stats", JSONStats(data.stats))>>
            ELSE <<>>))

\* ------------------------------------------------- generateTextExport

TextConfig(config) ==
    LET type == Get(config.v.llm, "type")
        model == Get(config.v.llm, "model")
        tier == config.v.current_provider_tier
    IN  <<"CONFIGURATION", NL, "====================", NL>>
        \o <<"Provider: ">> \o ToText(Or(type, JStr(<<"Unknown">>))) \o <<NL>>
        \o <<"Model: ">> \o ToText(Or(model, JStr(<<"Unknown">>))) \o <<NL>>
        \o <<"API Tier: ">> \o ToText(Or(tier, JStr(<<"Unknown">>))) \o <<NL, NL>>

TextStats(stats) ==
    <<"PROCESSING STATISTICS", NL, "=========================", NL>>
    \o <<"Start Time: ">> \o ToText(Or(stats.startTime, JStr(<<"Unknown">>))) \o <<NL>>
    \o <<"End Time: ">> \o ToText(Or(stats.endTime, JStr(<<"In Progress">>))) \o <<NL>>
    \o <<"Total Components: ">> \o NatToStr(stats.totalComponents) \o <<NL>>
    \o <<"Processed Components: ">> \o NatToStr(stats.processedComponents) \o <<NL>>
    \o <<"Errors: ">> \o NatToStr(stats.errors) \o <<NL>>
    \o <<"Warnings: ">> \o NatToStr(stats.warnings) \o <<NL, NL>>

TextLog(log) ==
    <<"[">> \o log.timestamp \o <<"] ">> \o log.level \o <<": ">> \o log.message \o <<NL>>

TextCall(call) ==
    <<"[">> \o call.timestamp \o <<"] ">> \o call.provider \o <<" - ">> \o call.model \o <<NL>>
    \o <<"  Request: ">> \o NatToStr(call.inputTokens) \o <<" tokens", NL>>
    \o <<"  Response: ">> \o NatToStr(call.outputTokens) \o <<" tokens", NL>>
    \o <<"  Duration: ">> \o NatToStr(call.duration) \o <<"ms", NL>>
    \o (IF Truthy(call.error) THEN <<"  Error: ">> \o call.error.v \o <<NL>> ELSE <<>>)
    \o <<NL>>

TextEvent(event) ==
    <<"[">> \o event.timestamp \o <<"] ">> \o event.type \o <<": ">> \o event.message \o <<NL>>
    \o <<"  Provider: ">> \o event.provider \o <<NL>>
    \o <<"  Limit: ">> \o event.limitType \o <<NL>>
    \o <<"  Current Usage: ">> \o NatToStr(event.currentUsage) \o <<"/">>
    \o NatToStr(event.limit) \o <<NL, NL>>

generateTextExport(data) ==
    <<"Scribe Processing Logs Export", NL>>
    \o <<"Generated: ">> \o data.metadata.exportTime \o <<NL>>
    \o <<"Format: ">> \o data.metadata.format \o <<NL>>
    \o <<"Version: ">> \o data.metadata.version \o <<NL, NL>>
    \o <<"==================================================", NL, NL>>
    \o (IF "config" \in DOMAIN data /\ Truthy(data.config)
        THEN TextConfig(data.config) ELSE <<>>)
    \o (IF "stats" \in DOMAIN data THEN TextStats(data.stats) ELSE <<>>)
    \o (IF "logs" \in DOMAIN data /\ Len(data.logs) > 0
        THEN <<"PROCESSING LOGS", NL, "====================", NL>>
             \o Concat([i \in 1..Len(data.logs) |-> TextLog(data.logs[i])])
             \o <<NL>>
        ELSE <<>>)
    \o (IF "apiCalls" \in DOMAIN data /\ Len(data.apiCalls) > 0
        THEN <<"API CALLS", NL, "===============", NL>>
             \o Concat([i \in 1..Len(data.apiCalls) |-> TextCall(data.apiCalls[i])])
        ELSE <<>>)
    \o (IF "rateLimitEvents" \in DOMAIN data /\ Len(data.rateLimitEvents) > 0
        THEN <<"RATE LIMIT EVENTS", NL, "====================", NL>>
             \o Concat([i \in 1..Len(data.rateLimitEvents) |->
                           TextEvent(data.rateLimitEvents[i])])
        ELSE <<>>)

\* -------------------------------------------------- generateCSVExport

CSVHeaders == << <<"Timestamp">>, <<"Type">>, <<"Level">>, <<"Provider">>,
                 <<"Model">>, <<"Message">>, <<"Details">> >>

\* `"${text}"`
Quoted(text) == <<Q>> \o text \o <<Q>>

\* text.replace(/"/g, '""')
EscapeQuotes(text) == ReplaceAll(text, Q, <<Q, Q>>)

CSVLogRow(log) ==
    << Quoted(log.timestamp),
       Quoted(<<"Log">>),
       Quoted(log.level),
       Quoted(<<>>),
       Quoted(<<>>),
       Quoted(EscapeQuotes(log.message)),
       Quoted(<<>>) >>

CSVCallRow(call) ==
    << Quoted(call.timestamp),
       Quoted(<<"API Call">>),
       Quoted(<<"INFO">>),
       Quoted(call.provider),
       Quoted(call.model),
       Quoted(<<"API Call - ">> \o NatToStr(call.inputTokens) \o <<" input", COMMA, " ">>
              \o NatToStr(call.outputTokens) \o <<" output tokens">>),
       Quoted(<<"Duration: ">> \o NatToStr(call.duration) \o <<"ms">>
              \o (IF Truthy(call.error)
                  THEN <<COMMA, " Error: ">> \o call.error.v ELSE <<>>)) >>

CSVEventRow(event) ==
    << Quoted(event.timestamp),
       Quoted(<<"Rate Limit">>),
       Quoted(event.level),
       Quoted(event.provider),
       Quoted(<<>>),
       Quoted(EscapeQuotes(event.message)),
       Quoted(event.limitType \o <<": ">> \o NatToStr(event.currentUsage) \o <<"/">>
              \o NatToStr(event.limit)) >>

\* row.join(',') + '\n'
CSVLine(row) == Join(row, <<COMMA>>) \o <<NL>>

generateCSVExport(data) ==
    CSVLine(CSVHeaders)
    \o (IF "logs" \in DOMAIN data /\ Len(data.logs) > 0
        THEN Concat([i \in 1..Len(data.logs) |-> CSVLine(CSVLogRow(data.logs[i]))])
        ELSE <<>>)
    \o (IF "apiCalls" \in DOMAIN data /\ Len(data.apiCalls) > 0
        THEN Concat([i \in 1..Len(data.apiCalls) |-> CSVLine(CSVCallRow(data.apiCalls[i]))])
        ELSE <<>>)
    \o (IF "rateLimitEvents" \in DOMAIN data /\ Len(data.rateLimitEvents) > 0
        THEN Concat([i \in 1..Len(data.rateLimitEvents) |->
                        CSVLine(CSVEventRow(data.rateLimitEvents[i]))])
        ELSE <<>>)

\* ------------------------------------------------------------ exportLogs

\* exportLogs that copies the API calls whatever their check box says.
ExportKeysWithCalls(sel) ==
    {"metadata", "apiCalls"}
    \cup (IF sel.logs THEN {"logs"} ELSE {})
    \cup (IF sel.rateLimits THEN {"rateLimitEvents"} ELSE {})
    \cup (IF sel.config THEN {"config"} ELSE {})
    \cup (IF sel.stats THEN {"stats"} ELSE {})

\* The sections that exportLogs copies into exportData, by the check boxes.
ExportKeys(sel) ==
    {"metadata"}
    \cup (IF sel.logs THEN {"logs"} ELSE {})
    \cup (IF sel.apiCalls THEN {"apiCalls"} ELSE {})
    \cup (IF sel.rateLimits THEN {"rateLimitEvents"} ELSE {})
    \cup (IF sel.config THEN {"config"} ELSE {})
    \cup (IF sel.stats THEN {"stats"} ELSE {})

ExportData(ld, format, sel) ==
    [k \in ExportKeys(sel) |->
        CASE k = "metadata" -> [exportTime |-> ISONow, format |-> format,
                                version |-> <<"1.0">>]
          [] k = "logs" -> ld.logs
          [] k = "apiCalls" -> ld.apiCalls
          [] k = "rateLimitEvents" -> ld.rateLimitEvents
          [] k = "config" -> ld.config
          [] k = "stats" -> ld.stats]

SupportedFormats == {<<"json">>, <<"txt">>, <<"csv">>}

MimeType(format) ==
    CASE format = <<"json">> -> "application/json"
      [] format = <<"txt">> -> "text/plain"
      [] format = <<"csv">> -> "text/csv"

\* The switch of exportLogs: the content of the file for a supported format.
ExportContent(format, data) ==
    CASE format = <<"json">> -> JSONStringify(data)
      [] format = <<"txt">> -> generateTextExport(data)
      [] format = <<"csv">> -> generateCSVExport(data)

\* $('#export-filename').val() || `scribe-logs-${...}`
ExportFilename(typed) == IF typed # <<>> THEN typed ELSE <<"scribe-logs-">> \o FileStamp

\* exportLogs whose default case does not return: the download follows, with
\* content, extension and MIME type undefined.
ExportFileFallThrough(ld, format, typed, sel) ==
    [ called |-> TRUE,
      content |-> IF format \in SupportedFormats
                  THEN ExportContent(format, ExportData(ld, format, sel))
                  ELSE <<"undefined">>,
      filename |-> ExportFilename(typed) \o <<".">>
                   \o (IF format \in SupportedFormats THEN format ELSE <<"undefined">>),
      mimeType |-> IF format \in SupportedFormats THEN MimeType(format) ELSE "undefined" ]

\* The call of downloadFile that exportLogs makes, or none for an unknown format.
ExportFile(ld, format, typed, sel) ==
    IF format \in SupportedFormats
    THEN [ called |-> TRUE,
           content |-> ExportContent(format, ExportData(ld, format, sel)),
           filename |-> ExportFilename(typed) \o <<".">> \o format,
           mimeType |-> MimeType(format) ]
    ELSE NoFile

\* The calls of showMessage that exportLogs makes.
ExportMessages(format, typed) ==
    IF format \in SupportedFormats
    THEN << [type |-> "success",
             text |-> <<"Logs exported successfully as ">> \o ExportFilename(typed)
                      \o <<".">> \o format] >>
    ELSE << [type |-> "error", text |-> <<"Unknown export format">>] >>

\* --------------------------------------------- configuration records used

\* Sections with every field set to a value that is not falsy.
LlmA == JObj([ type |-> JStr(<<"claude">>), api_key |-> JStr(<<"k">>),
               model |-> JStr(<<"m">>), temperature |-> JNum(5),
               max_tokens |-> JNum(40960) ])
FlowA == JObj([ max_reader_search_attempts |-> JNum(30),
                max_verifier_rejections |-> JNum(20),
                status_sleep_time |-> JNum(15) ])
DocA == JObj([ overwrite_docstrings |-> JBool(TRUE) ])
TierA == JStr(<<"premium">>)
OverridesA == JObj([ enable_conservative_limits |-> JBool(TRUE),
                     max_components_per_minute |-> JNum(50),
                     delay_between_requests |-> JNum(5000),
                     enable_batch_processing |-> JBool(TRUE),
                     batch_size |-> JNum(50) ])

\* Sections with every field set to 0, false or the empty string.
LlmZ == JObj([ type |-> JStr(<<>>), api_key |-> JStr(<<>>), model |-> JStr(<<>>),
               temperature |-> JNum(0), max_tokens |-> JNum(0) ])
FlowZ == JObj([ max_reader_search_attempts |-> JNum(0),
                max_verifier_rejections |-> JNum(0),
                status_sleep_time |-> JNum(0) ])
DocZ == JObj([ overwrite_docstrings |-> JBool(FALSE) ])
TierZ == JStr(<<>>)
OverridesZ == JObj([ enable_conservative_limits |-> JBool(FALSE),
                     max_components_per_minute |-> JNum(0),
                     delay_between_requests |-> JNum(0),
                     enable_batch_processing |-> JBool(FALSE),
                     batch_size |-> JNum(0) ])

\* Sections that are objects without fields.
LlmE == JObj([ type |-> JUndef, api_key |-> JUndef, model |-> JUndef,
               temperature |-> JUndef, max_tokens |-> JUndef ])
FlowE == JObj([ max_reader_search_attempts |-> JUndef,
                max_verifier_rejections |-> JUndef,
                status_sleep_time |-> JUndef ])
DocE == JObj([ overwrite_docstrings |-> JUndef ])
OverridesE == JObj([ enable_conservative_limits |-> JUndef,
                     max_components_per_minute |-> JUndef,
                     delay_between_requests |-> JUndef,
                     enable_batch_processing |-> JUndef,
                     batch_size |-> JUndef ])

FullA == [ llm |-> LlmA, flow_control |-> FlowA, docstring_options |-> DocA,
           current_provider_tier |-> TierA, user_overrides |-> OverridesA ]
FullZ == [ llm |-> LlmZ, flow_control |-> FlowZ, docstring_options |-> DocZ,
           current_provider_tier |-> TierZ, user_overrides |-> OverridesZ ]
\* Every section an object without fields, and no tier.
FullE == [ llm |-> LlmE, flow_control |-> FlowE, docstring_options |-> DocE,
           current_provider_tier |-> JUndef, user_overrides |-> OverridesE ]
\* The record {}.
NoSections == [ llm |-> JUndef, flow_control |-> JUndef, docstring_options |-> JUndef,
                current_provider_tier |-> JUndef, user_overrides |-> JUndef ]

Sections == {"llm", "flow_control", "docstring_options", "current_provider_tier",
             "user_overrides"}

\* The record c without the section k.
Without(c, k) == [c EXCEPT ![k] = JUndef]
\* The record c with the section k of the record d.
With(c, k, d) == [c EXCEPT ![k] = d[k]]

\* ------------------------------------------------ aggregator: handlers

Formats == SupportedFormats \cup {<<"xml">>}
TypedNames == {<<>>, <<"f">>}
Sel(logs, apiCalls, rateLimits, config, stats) ==
    [logs |-> logs, apiCalls |-> apiCalls, rateLimits |-> rateLimits,
     config |-> config, stats |-> stats]
LogsOnly == Sel(TRUE, FALSE, FALSE, FALSE, FALSE)
\* The check boxes as the user may have set them.
Selections ==
    { LogsOnly,
      Sel(FALSE, TRUE, FALSE, FALSE, FALSE),
      Sel(FALSE, FALSE, TRUE, FALSE, FALSE),
      Sel(TRUE, TRUE, TRUE, FALSE, FALSE),
      Sel(TRUE, TRUE, TRUE, TRUE, TRUE),
      Sel(FALSE, FALSE, FALSE, TRUE, TRUE) }
StatsInputs ==
    { [totalComponents |-> 2, processedComponents |-> 1],
      [errors |-> 1, warnings |-> 1] }
ExportConfigs ==
    { JObj([NoSections EXCEPT !.llm = JObj([LlmE.v EXCEPT !.type = JStr(<<"claude">>)]),
                              !.current_provider_tier = TierA]) }

\* What a handler of the aggregator leaves alone.
BinderUnchanged == UNCHANGED binderVars

ShowExportModal ==
    /\ modalOpen' = TRUE
    /\ shown' = <<>>
    /\ file' = NoFile
    /\ lastOp' = [op |-> "showExportModal"]
    /\ UNCHANGED <<logData, logContent>>
    /\ BinderUnchanged

\* clearLogs that does not ask: it clears whatever the user answers.
ClearLogsUngated(confirmed) ==
    /\ logData' = clearLogData(logData)
    /\ logContent' = "No logs yet"
    /\ shown' = << [type |-> "info", text |-> <<"Logs cleared successfully">>] >>
    /\ file' = NoFile
    /\ lastOp' = [op |-> "clearLogs", confirmed |-> confirmed,
                  records |-> Records(logData),
                  counted |-> logData.stats.errors + logData.stats.warnings]
    /\ UNCHANGED modalOpen
    /\ UNCHANGED binderVars

\* clearLogs, the user answering the confirm dialog with `confirmed`.
ClearLogs(confirmed) ==
    /\ logData' = IF confirmed THEN clearLogData(logData) ELSE logData
    /\ logContent' = IF confirmed THEN "No logs yet" ELSE logContent
    /\ shown' = IF confirmed
                THEN << [type |-> "info", text |-> <<"Logs cleared successfully">>] >>
                ELSE <<>>
    /\ file' = NoFile
    /\ lastOp' = [op |-> "clearLogs", confirmed |-> confirmed,
                  records |-> Records(logData),
                  counted |-> logData.stats.errors + logData.stats.warnings]
    /\ UNCHANGED modalOpen
    /\ BinderUnchanged

\* exportLogs, the click on the confirm button of the open export modal.
ExportLogs(format, typed, sel) ==
    /\ modalOpen
    /\ file' = ExportFile(logData, format, typed, sel)
    /\ shown' = ExportMessages(format, typed)
    /\ modalOpen' = IF format \in SupportedFormats THEN FALSE ELSE modalOpen
    /\ lastOp' = [op |-> "exportLogs", format |-> format, typed |-> typed, sel |-> sel]
    /\ UNCHANGED <<logData, logContent>>
    /\ BinderUnchanged

\* A recorder or an updater: logData becomes ld, nothing is shown or downloaded.
Recorded(ld, op) ==
    /\ logData' = ld
    /\ shown' = <<>>
    /\ file' = NoFile
    /\ lastOp' = [op |-> op]
    /\ UNCHANGED <<logContent, modalOpen>>
    /\ BinderUnchanged

AddLogEntry(level, message) ==
    /\ Records(logData) + 1 <= MaxRecords
    /\ Recorded(addLogEntry(logData, level, message, JNull), "addLogEntry")

AddAPICallEntry(provider, model, error) ==
    /\ Records(logData) + 1 <= MaxRecords
    /\ Recorded(addAPICallEntry(logData, provider, model, 12, 7, 30, error),
                "addAPICallEntry")

AddRateLimitEvent(type, provider, message) ==
    /\ Records(logData) + 2 <= MaxRecords
    /\ Recorded(addRateLimitEvent(logData, type, provider, <<"rpm">>, 9, 10, message),
                "addRateLimitEvent")

UpdateConfigForExport(config) ==
    Recorded(updateConfigForExport(logData, config), "updateConfigForExport")

UpdateProcessingStats(stats) ==
    Recorded(updateProcessingStats(logData, stats), "updateProcessingStats")

MarkProcessingComplete ==
    Recorded(markProcessingComplete(logData), "markProcessingComplete")

\* ------------------------------------------------- config binder: parsing

IsDigit(ch) == \E d \in 1..10 : DigitChars[d] = ch
DigitVal(ch) == (CHOOSE d \in 1..10 : DigitChars[d] = ch) - 1

RECURSIVE LeadingDigits(_)
\* The number of digits that text starts with.
LeadingDigits(text) ==
    IF text # <<>> /\ IsDigit(Head(text)) THEN 1 + LeadingDigits(Tail(text)) ELSE 0

RECURSIVE NatOf(_, _)
\* The number that the digits of text spell after the number acc.
NatOf(text, acc) ==
    IF text = <<>> THEN acc ELSE NatOf(Tail(text), 10 * acc + DigitVal(Head(text)))

\* parseInt(text): the digits that text starts with, NaN when there is none.
parseInt(text) ==
    LET n == LeadingDigits(text)
    IN  IF n = 0 THEN JNaN ELSE JNum(10 * NatOf(SubSeq(text, 1, n), 0))

\* parseFloat(text): the digits that text starts with and the fraction after them,
\* NaN when there is neither.  (A text of the model holds one fraction digit at most.)
parseFloat(text) ==
    LET n == LeadingDigits(text)
        fraction == Len(text) >= n + 2 /\ text[n + 1] = "." /\ IsDigit(text[n + 2])
    IN  IF n = 0 /\ ~fraction THEN JNaN
        ELSE JNum(10 * NatOf(SubSeq(text, 1, n), 0)
                  + (IF fraction THEN DigitVal(text[n + 2]) ELSE 0))

\* ---------------------------------------------------- config binder: form

\* The controls that hold a text, and the check boxes.
TextFields ==
    {"llm_type", "llm_api_key", "llm_model", "llm_temperature", "llm_max_tokens",
     "provider_tier", "max_components_per_minute", "delay_between_requests",
     "batch_size", "max_reader_search_attempts", "max_verifier_rejections",
     "status_sleep_time"}
CheckBoxes ==
    {"enable_conservative_limits", "enable_batch_processing", "overwrite_docstrings"}

\* The controls that applyConfigToForm writes for each section of the record.
FieldsOf ==
    [ llm |-> {"llm_type", "llm_api_key", "llm_model", "llm_temperature",
               "llm_max_tokens"},
      current_provider_tier |-> {"provider_tier"},
      user_overrides |-> {"enable_conservative_limits", "max_components_per_minute",
                          "delay_between_requests", "enable_batch_processing",
                          "batch_size"},
      flow_control |-> {"max_reader_search_attempts", "max_verifier_rejections",
                        "status_sleep_time"},
      docstring_options |-> {"overwrite_docstrings"} ]

\* The value that applyConfigToForm writes for a field that the record does not
\* hold: the operand after || (and true for the check boxes tested with !== false).
Fallback ==
    [ llm_type |-> <<"gemini">>,
      llm_api_key |-> <<>>,
      llm_model |-> <<"gemini-2.5-pro">>,
      llm_temperature |-> NumToStr(1),
      llm_max_tokens |-> NumToStr(163840),
      enable_conservative_limits |-> TRUE,
      max_components_per_minute |-> NumToStr(80),
      delay_between_requests |-> NumToStr(20000),
      enable_batch_processing |-> TRUE,
      batch_size |-> NumToStr(30),
      max_reader_search_attempts |-> NumToStr(20),
      max_verifier_rejections |-> NumToStr(10),
      status_sleep_time |-> NumToStr(10),
      overwrite_docstrings |-> FALSE ]

\* The form as the page shows it before any handler has run: every control at the
\* value the binder falls back to, the tier at the first tier of the provider.
InitForm ==
    [f \in TextFields \cup CheckBoxes |->
        IF f = "provider_tier" THEN <<"free">> ELSE Fallback[f]]

\* $(control).val(x || fallback)
ValOr(x, fallback) == IF Truthy(x) THEN ToText(x) ELSE fallback

\* x !== false
NotFalse(x) == ~(x.t = "bool" /\ x.v = FALSE)

\* ----------------------------------- config binder: the limits display

providerLimits ==
    [ gemini |-> [ free |-> [requests |-> 150, input |-> "1M", output |-> "1M",
                             tier |-> "Free"],
                   pay_as_you_go |-> [requests |-> 150, input |-> "1M", output |-> "1M",
                                      tier |-> "Pay-as-you-go"],
                   enterprise |-> [requests |-> 150, input |-> "1M", output |-> "1M",
                                   tier |-> "Enterprise"] ],
      claude |-> [ standard |-> [requests |-> 50, input |-> "20K", output |-> "8K",
                                 tier |-> "Standard"],
                   premium |-> [requests |-> 500, input |-> "200K", output |-> "100K",
                                tier |-> "Premium"] ],
      openai |-> [ standard |-> [requests |-> 500, input |-> "200K", output |-> "100K",
                                 tier |-> "Standard"],
                   premium |-> [requests |-> 10000, input |-> "2M", output |-> "1M",
                                tier |-> "Premium"] ] ]

\* What updateProviderLimitsDisplay renders for the provider and tier of the form.
updateProviderLimitsDisplay(f) ==
    LET provider == f.llm_type
        tier == f.provider_tier
        known == /\ Len(provider) = 1 /\ provider[1] \in DOMAIN providerLimits
                 /\ Len(tier) = 1 /\ tier[1] \in DOMAIN providerLimits[provider[1]]
    IN  IF known
        THEN LET limits == providerLimits[provider[1]][tier[1]]
             IN  [ kind |-> "limits",
                   requests |-> limits.requests,
                   effectiveRequests |-> (limits.requests * 8) \div 10,
                   input |-> limits.input,
                   output |-> limits.output,
                   tier |-> limits.tier ]
        ELSE [kind |-> "Select provider and tier to see limits"]

\* ------------------------------------------ config binder: applyConfigToForm

\* The llm block of applyConfigToForm run for a record without the section too, as
\* `config.llm || {}` would.
ApplyLlmAlways(f, config) ==
    [f EXCEPT !.llm_type = ValOr(Get(config.llm, "type"), <<"gemini">>),
              !.llm_api_key = ValOr(Get(config.llm, "api_key"), <<>>),
              !.llm_model = ValOr(Get(config.llm, "model"), <<"gemini-2.5-pro">>),
              !.llm_temperature = ValOr(Get(config.llm, "temperature"), NumToStr(1)),
              !.llm_max_tokens = ValOr(Get(config.llm, "max_tokens"), NumToStr(163840))]

ApplyLlm(f, config) ==
    IF Truthy(config.llm)
    THEN [f EXCEPT !.llm_type = ValOr(Get(config.llm, "type"), <<"gemini">>),
                   !.llm_api_key = ValOr(Get(config.llm, "api_key"), <<>>),
                   !.llm_model = ValOr(Get(config.llm, "model"), <<"gemini-2.5-pro">>),
                   !.llm_temperature = ValOr(Get(config.llm, "temperature"), NumToStr(1)),
                   !.llm_max_tokens = ValOr(Get(config.llm, "max_tokens"), NumToStr(163840))]
    ELSE f

ApplyTier(f, config) ==
    IF Truthy(config.current_provider_tier)
    THEN [f EXCEPT !.provider_tier = ToText(config.current_provider_tier)]
    ELSE f

ApplyOverrides(f, config) ==
    LET o == config.user_overrides IN
    IF Truthy(o)
    THEN [f EXCEPT !.enable_conservative_limits =
                        NotFalse(Get(o, "enable_conservative_limits")),
                   !.max_components_per_minute =
                        ValOr(Get(o, "max_components_per_minute"), NumToStr(80)),
                   !.delay_between_requests =
                        ValOr(Get(o, "delay_between_requests"), NumToStr(20000)),
                   !.enable_batch_processing =
                        NotFalse(Get(o, "enable_batch_processing")),
                   !.batch_size = ValOr(Get(o, "batch_size"), NumToStr(30))]
    ELSE f

ApplyFlowControl(f, config) ==
    LET c == config.flow_control IN
    IF Truthy(c)
    THEN [f EXCEPT !.max_reader_search_attempts =
                        ValOr(Get(c, "max_reader_search_attempts"), NumToStr(20)),
                   !.max_verifier_rejections =
                        ValOr(Get(c, "max_verifier_rejections"), NumToStr(10)),
                   !.status_sleep_time =
                        ValOr(Get(c, "status_sleep_time"), NumToStr(10))]
    ELSE f

ApplyDocstringOptions(f, config) ==
    IF Truthy(config.docstring_options)
    THEN [f EXCEPT !.overwrite_docstrings =
                        Truthy(Or(Get(config.docstring_options, "overwrite_docstrings"),
                                  JBool(FALSE)))]
    ELSE f

\* The form when applyConfigToForm calls updateProviderLimitsDisplay.
ApplyBeforeDisplay(f, config) ==
    ApplyOverrides(ApplyTier(ApplyLlm(f, config), config), config)

\* The form that applyConfigToForm leaves.
applyConfigToForm(f, config) ==
    ApplyDocstringOptions(ApplyFlowControl(ApplyBeforeDisplay(f, config), config), config)

\* ---------------------------------------- config binder: buildConfigFromForm

buildConfigFromForm(f) ==
    [ llm |-> JObj([ type |-> JStr(f.llm_type),
                     api_key |-> JStr(f.llm_api_key),
                     model |-> JStr(f.llm_model),
                     temperature |-> parseFloat(f.llm_temperature),
                     max_tokens |-> parseInt(f.llm_max_tokens) ]),
      flow_control |->
          JObj([ max_reader_search_attempts |-> parseInt(f.max_reader_search_attempts),
                 max_verifier_rejections |-> parseInt(f.max_verifier_rejections),
                 status_sleep_time |-> parseFloat(f.status_sleep_time) ]),
      docstring_options |-> JObj([ overwrite_docstrings |-> JBool(f.overwrite_docstrings) ]),
      current_provider_tier |-> JStr(f.provider_tier),
      user_overrides |->
          JObj([ enable_conservative_limits |-> JBool(f.enable_conservative_limits),
                 max_components_per_minute |-> parseInt(f.max_components_per_minute),
                 delay_between_requests |-> parseInt(f.delay_between_requests),
                 enable_batch_processing |-> JBool(f.enable_batch_processing),
                 batch_size |-> parseInt(f.batch_size) ]) ]

\* ------------------------------------------- config binder: handlers

\* What the server may answer GET /api/default_config with.
ServerConfigs ==
    {FullA, FullZ, FullE, NoSections}
    \cup {Without(FullA, k) : k \in Sections}
    \cup {With(FullA, k, FullZ) : k \in Sections}

\* The controls that the user changes: at least one of every section and of every
\* kind (selection, text, whole number, decimal number, check box), and the three
\* whose change handlers redraw the provider limits.
EditedFields ==
    {"llm_type", "llm_api_key", "llm_temperature", "provider_tier",
     "enable_conservative_limits", "batch_size", "status_sleep_time",
     "overwrite_docstrings"}

\* What the user types into a control, or selects in it.
Typed ==
    [f \in TextFields |->
        CASE f = "llm_type" -> <<"openai">>
          [] f = "provider_tier" -> <<"standard">>
          [] f \in {"llm_api_key", "llm_model"} -> <<"u">>
          [] OTHER -> <<"7">>]

\* The handler that ran last, without the one before it.
Brief(o) == [k \in DOMAIN o \ {"prev"} |-> o[k]]

\* What a handler of the binder leaves alone.
AggUnchanged == UNCHANGED aggVars

\* initProviderLimitsHandlers binds the change handlers of the limits display.
InitProviderLimitsHandlers ==
    /\ limitsHandlers' = TRUE
    /\ shown' = <<>>
    /\ built' = JUndef
    /\ lastOp' = [op |-> "initProviderLimitsHandlers", prev |-> Brief(lastOp)]
    /\ UNCHANGED <<form, limitsDisplay, pending, edits>>
    /\ AggUnchanged

\* The user changes a control: a text is typed or selected, a check box toggled.  A
\* change of the provider, the tier or the conservative-limits box runs
\* updateProviderLimitsDisplay once the change handlers are bound.
UserEdit(field) ==
    /\ edits < MaxEdits
    /\ edits' = edits + 1
    /\ form' = [form EXCEPT ![field] = IF field \in CheckBoxes THEN ~@ ELSE Typed[field]]
    /\ limitsDisplay' =
          IF limitsHandlers
             /\ field \in {"llm_type", "provider_tier", "enable_conservative_limits"}
          THEN updateProviderLimitsDisplay(form')
          ELSE limitsDisplay
    /\ shown' = <<>>
    /\ built' = JUndef
    /\ lastOp' = [op |-> "edit", field |-> field, inFlight |-> pending > 0,
                  prev |-> Brief(lastOp)]
    /\ UNCHANGED <<limitsHandlers, pending>>
    /\ AggUnchanged

\* loadDefaultConfig issues the request and returns.
LoadDefaultConfig ==
    /\ pending < MaxPending
    /\ pending' = pending + 1
    /\ shown' = <<>>
    /\ built' = JUndef
    /\ lastOp' = [op |-> "loadDefaultConfig", prev |-> Brief(lastOp)]
    /\ UNCHANGED <<form, limitsDisplay, limitsHandlers, edits>>
    /\ AggUnchanged

\* A success callback that drops the answer when the user has just edited the form.
AjaxSuccessKeepsEdit(config) ==
    /\ pending > 0
    /\ pending' = pending - 1
    /\ form' = IF lastOp.op = "edit" THEN form ELSE applyConfigToForm(form, config)
    /\ limitsDisplay' = updateProviderLimitsDisplay(ApplyBeforeDisplay(form, config))
    /\ shown' = <<>>
    /\ built' = JUndef
    /\ lastOp' = [op |-> "success", config |-> config, prev |-> Brief(lastOp)]
    /\ UNCHANGED <<limitsHandlers, edits>>
    /\ UNCHANGED aggVars

\* The success callback of loadDefaultConfig, the server having answered config.
AjaxSuccess(config) ==
    /\ pending > 0
    /\ pending' = pending - 1
    /\ form' = applyConfigToForm(form, config)
    /\ limitsDisplay' = updateProviderLimitsDisplay(ApplyBeforeDisplay(form, config))
    /\ shown' = <<>>
    /\ built' = JUndef
    /\ lastOp' = [op |-> "success", config |-> config, prev |-> Brief(lastOp)]
    /\ UNCHANGED <<limitsHandlers, edits>>
    /\ AggUnchanged

\* An error callback that writes the fallback values into the form.
AjaxErrorApplies ==
    /\ pending > 0
    /\ pending' = pending - 1
    /\ form' = applyConfigToForm(form, FullE)
    /\ limitsDisplay' = updateProviderLimitsDisplay(ApplyBeforeDisplay(form, FullE))
    /\ shown' = << [type |-> "warning",
                    text |-> <<"Failed to load default configuration. Using fallback values.">>] >>
    /\ built' = JUndef
    /\ lastOp' = [op |-> "error", prev |-> Brief(lastOp)]
    /\ UNCHANGED <<limitsHandlers, edits>>
    /\ UNCHANGED aggVars

\* The error callback of loadDefaultConfig.
AjaxError ==
    /\ pending > 0
    /\ pending' = pending - 1
    /\ shown' = << [type |-> "warning",
                    text |-> <<"Failed to load default configuration. Using fallback values.">>] >>
    /\ built' = JUndef
    /\ lastOp' = [op |-> "error", prev |-> Brief(lastOp)]
    /\ UNCHANGED <<form, limitsDisplay, limitsHandlers, edits>>
    /\ AggUnchanged

\* A caller reads the form back with buildConfigFromForm.
BuildConfigFromForm ==
    /\ built' = JObj(buildConfigFromForm(form))
    /\ shown' = <<>>
    /\ lastOp' = [op |-> "buildConfigFromForm",
                  prev |-> IF lastOp.op = "buildConfigFromForm"
                           THEN lastOp.prev ELSE Brief(lastOp)]
    /\ UNCHANGED <<form, limitsDisplay, limitsHandlers, pending, edits>>
    /\ AggUnchanged

\* ------------------------------------------------------------------ Init

Init ==
    /\ logData = InitLogData
    /\ logContent = "template"
    /\ modalOpen = FALSE
    /\ shown = <<>>
    /\ file = NoFile
    /\ form = InitForm
    /\ limitsDisplay = [kind |-> "template"]
    /\ limitsHandlers = FALSE
    /\ pending = 0
    /\ edits = 0
    /\ built = JUndef
    /\ lastOp = [op |-> "load"]

\* ------------------------------------------------------- specifications

\* The aggregator without its export: the recorders, the updaters and clearLogs.
NextLog ==
    \/ \E confirmed \in BOOLEAN : ClearLogs(confirmed)
    \/ \E in \in LogInputs : AddLogEntry(in[1], in[2])
    \/ \E in \in ApiInputs : AddAPICallEntry(in[1], in[2], in[3])
    \/ \E in \in RateInputs : AddRateLimitEvent(in[1], in[2], in[3])
    \/ \E config \in ExportConfigs : UpdateConfigForExport(config)
    \/ \E stats \in StatsInputs : UpdateProcessingStats(stats)
    \/ MarkProcessingComplete

SpecLog == Init /\ [][NextLog]_vars

\* The export of what the recorders have collected.
NextExport ==
    \/ ShowExportModal
    \/ \E format \in Formats, typed \in TypedNames, sel \in Selections :
          ExportLogs(format, typed, sel)
    \/ \E in \in LogInputs : AddLogEntry(in[1], in[2])
    \/ \E in \in ApiInputs : AddAPICallEntry(in[1], in[2], in[3])
    \/ \E in \in RateInputs : AddRateLimitEvent(in[1], in[2], in[3])
    \/ \E config \in ExportConfigs : UpdateConfigForExport(config)

SpecExport == Init /\ [][NextExport]_vars

\* The config binder: the default-config request, its callbacks, the user's edits
\* and the reading back of the form.
NextConfig ==
    \/ InitProviderLimitsHandlers
    \/ \E field \in EditedFields : UserEdit(field)
    \/ LoadDefaultConfig
    \/ \E config \in ServerConfigs : AjaxSuccess(config)
    \/ AjaxError
    \/ BuildConfigFromForm

SpecConfig == Init /\ [][NextConfig]_vars

\* The statistics that updateProcessingStats is called with when the caller reports
\* progress only: no errors key and no warnings key.
ProgressInputs == {stats \in StatsInputs : DOMAIN stats \cap {"errors", "warnings"} = {}}

\* The check boxes of the exports taken while the counters are watched.
CounterSelections == {LogsOnly, Sel(TRUE, TRUE, TRUE, TRUE, TRUE)}

\* The aggregator with its export, where updateProcessingStats reports progress only.
NextCounters ==
    \/ \E confirmed \in BOOLEAN : ClearLogs(confirmed)
    \/ \E in \in LogInputs : AddLogEntry(in[1], in[2])
    \/ \E in \in ApiInputs : AddAPICallEntry(in[1], in[2], in[3])
    \/ \E in \in RateInputs : AddRateLimitEvent(in[1], in[2], in[3])
    \/ \E stats \in ProgressInputs : UpdateProcessingStats(stats)
    \/ MarkProcessingComplete
    \/ ShowExportModal
    \/ \E format \in Formats, sel \in CounterSelections : ExportLogs(format, <<>>, sel)

SpecCounters == Init /\ [][NextCounters]_vars

\* ------------------------------------------------------------ reading CSV

(***************************************************************************)
(* A reader of one line of CSV text (RFC 4180): a cell is quoted or not;   *)
(* inside a quoted cell a doubled quote is a quote and a comma is text; a  *)
(* lone quote ends the cell and a comma or the end of the line must        *)
(* follow.  The result holds the cells read and whether the line was well  *)
(* formed.                                                                 *)
(***************************************************************************)
RECURSIVE CSVRead(_, _, _, _)
CSVRead(text, mode, cell, row) ==
    IF text = <<>>
    THEN [ok |-> mode # "quoted", cells |-> Append(row, cell)]
    ELSE LET ch == Head(text)
             rest == Tail(text)
         IN  CASE mode = "quoted" ->
                    IF ch = Q THEN CSVRead(rest, "closing", cell, row)
                    ELSE CSVRead(rest, "quoted", Append(cell, ch), row)
               [] mode = "closing" /\ ch = Q ->
                    CSVRead(rest, "quoted", Append(cell, Q), row)
               [] mode = "start" /\ ch = Q ->
                    CSVRead(rest, "quoted", <<>>, row)
               [] mode \in {"start", "plain", "closing"} /\ ch = COMMA ->
                    CSVRead(rest, "start", <<>>, Append(row, cell))
               [] mode \in {"start", "plain"} /\ ch # Q ->
                    CSVRead(rest, "plain", Append(cell, ch), row)
               [] OTHER -> [ok |-> FALSE, cells |-> row]

CSVParseLine(line) == CSVRead(line, "start", <<>>, <<>>)

\* The lines of a text: what stands before each of its newlines.  (No value that
\* the model records holds a newline.)
Lines(text) ==
    LET ends == {i \in 1..Len(text) : text[i] = NL}
        StartOf(e) == IF \E d \in ends : d < e
                      THEN 1 + CHOOSE d \in ends : d < e /\ \A c \in ends : c < e => c <= d
                      ELSE 1
        Nth(n) == CHOOSE e \in ends : Cardinality({d \in ends : d <= e}) = n
    IN  [n \in 1..Cardinality(ends) |-> SubSeq(text, StartOf(Nth(n)), Nth(n) - 1)]

\* ------------------------------------------------------------- the claims

\* The symbols by which a record of the API-call sequence shows in an export.
ApiCallMarks == {"apiCalls", "API CALLS", "API Call", "API Call - ", "  Request: "}
\* The symbols by which a record of the rate-limit sequence shows in an export.
RateLimitRecordMarks ==
    {"rateLimitEvents", "RATE LIMIT EVENTS", "Rate Limit", "  Limit: ",
     "RATE_LIMIT_HIT", "RATE_LIMIT_WARNING"}
\* The text that addRateLimitEvent puts before the message in the log entry it adds.
RateLimitLogMark == "Rate Limit Event: "

Mentions(text, marks) == \E i \in 1..Len(text) : text[i] \in marks

IsPrefix(s, u) == Len(s) <= Len(u) /\ SubSeq(u, 1, Len(s)) = s

\* C1: one call of addRateLimitEvent with type RATE_LIMIT_HIT increases the warning
\* counter by exactly 1, appends exactly one rate-limit record and exactly one log
\* record, and leaves the API-call sequence and the error counter unchanged.
C1_RateLimitHit ==
    [][ ( /\ lastOp'.op = "addRateLimitEvent"
          /\ Last(logData'.rateLimitEvents).type = RATE_LIMIT_HIT )
        => ( /\ logData'.stats.warnings = logData.stats.warnings + 1
             /\ Len(logData'.rateLimitEvents) = Len(logData.rateLimitEvents) + 1
             /\ IsPrefix(logData.rateLimitEvents, logData'.rateLimitEvents)
             /\ Len(logData'.logs) = Len(logData.logs) + 1
             /\ IsPrefix(logData.logs, logData'.logs)
             /\ logData'.apiCalls = logData.apiCalls
             /\ logData'.stats.errors = logData.stats.errors ) ]_vars

\* C1's case: a limit-hit event recorded after an earlier log entry, the warning
\* counter having been merged or counted above zero before.
C1_Witness ==
    /\ lastOp.op = "addRateLimitEvent"
    /\ Last(logData.rateLimitEvents).type = RATE_LIMIT_HIT
    /\ Len(logData.logs) >= 2
    /\ logData.stats.warnings >= 2

\* C2: a confirmed clearLogs leaves the three collections empty and both the error
\* and the warning counter at 0, whatever they held before.
C2_ClearResets ==
    (lastOp.op = "clearLogs" /\ lastOp.confirmed)
    => ( /\ logData.logs = <<>>
         /\ logData.apiCalls = <<>>
         /\ logData.rateLimitEvents = <<>>
         /\ logData.stats.errors = 0
         /\ logData.stats.warnings = 0 )

\* C2's case: a confirmed clear of collections that held records, with counters
\* above zero, after a merge of statistics and markProcessingComplete.
C2_Witness ==
    /\ lastOp.op = "clearLogs" /\ lastOp.confirmed
    /\ lastOp.records = MaxRecords
    /\ lastOp.counted >= 2
    /\ logData.stats.totalComponents > 0
    /\ logData.stats.endTime # JNull

\* C10: a declined clearLogs leaves the collections, the statistics and the stored
\* config unchanged and shows no message; a confirmed one leaves config, startTime,
\* endTime, totalComponents and processedComponents unchanged.
C10_ClearGated ==
    [][ lastOp'.op = "clearLogs"
        => IF lastOp'.confirmed
           THEN /\ logData'.config = logData.config
                /\ logData'.stats.startTime = logData.stats.startTime
                /\ logData'.stats.endTime = logData.stats.endTime
                /\ logData'.stats.totalComponents = logData.stats.totalComponents
                /\ logData'.stats.processedComponents = logData.stats.processedComponents
           ELSE /\ logData' = logData
                /\ logContent' = logContent
                /\ shown' = <<>> ]_vars

\* C10's case: the user declined, and records, counters and a config are there to
\* be kept.
C10_Witness ==
    /\ lastOp.op = "clearLogs" /\ ~lastOp.confirmed
    /\ Records(logData) = MaxRecords
    /\ logData.stats.errors + logData.stats.warnings > 0
    /\ logData.config # JNull

\* What an export of the logs section alone is made from.
LogsOnlyExported ==
    /\ lastOp.op = "exportLogs"
    /\ lastOp.sel = LogsOnly
    /\ file.called

\* C3 as claimed: an export with only the logs section selected holds no API-call
\* content and no rate-limit content, in json, txt and csv.
C3_AsClaimed ==
    LogsOnlyExported
    => ( /\ ~Mentions(file.content, ApiCallMarks)
         /\ ~Mentions(file.content, RateLimitRecordMarks \cup {RateLimitLogMark}) )

\* logData with the API calls and the rate-limit events taken out.
LogsAlone(ld) == [ld EXCEPT !.apiCalls = <<>>, !.rateLimitEvents = <<>>]

\* C3, amended: an export with only the logs section selected holds no record of
\* the API-call sequence and no record of the rate-limit sequence, in json, txt and
\* csv: it is the export of the log sequence alone.  (A log entry that
\* addRateLimitEvent added to the log sequence is part of it.)
C3_LogsOnlyExport ==
    LogsOnlyExported
    => ( /\ ~Mentions(file.content, ApiCallMarks)
         /\ ~Mentions(file.content, RateLimitRecordMarks)
         /\ file.content =
              ExportContent(lastOp.format,
                            ExportData(LogsAlone(logData), lastOp.format, LogsOnly)) )

\* C3's case: API calls and rate-limit events are recorded and the logs alone are
\* exported.
C3_Witness ==
    /\ LogsOnlyExported
    /\ lastOp.format = <<"csv">>
    /\ logData.apiCalls # <<>>
    /\ logData.rateLimitEvents # <<>>

\* C4: exportLogs with an unsupported format does not call downloadFile, shows an
\* error message and no success message, and leaves the aggregator unchanged.
C4_UnknownFormat ==
    [][ (lastOp'.op = "exportLogs" /\ lastOp'.format \notin SupportedFormats)
        => ( /\ ~file'.called
             /\ \E i \in 1..Len(shown') : shown'[i].type = "error"
             /\ \A i \in 1..Len(shown') : shown'[i].type # "success"
             /\ logData' = logData
             /\ logContent' = logContent ) ]_vars

\* C4's case: an export as xml of collections that hold records.
C4_Witness ==
    /\ lastOp.op = "exportLogs"
    /\ lastOp.format = <<"xml">>
    /\ Records(logData) = MaxRecords

\* The rows that a CSV export of exportData holds after the header row.
ExportedRows(ld, sel) ==
    (IF sel.logs THEN Len(ld.logs) ELSE 0)
    + (IF sel.apiCalls THEN Len(ld.apiCalls) ELSE 0)
    + (IF sel.rateLimits THEN Len(ld.rateLimitEvents) ELSE 0)

\* C9 as claimed: in the CSV export the quotes of every field value are doubled, so
\* that the text reads back as one row of exactly 7 cells for the header and for
\* every record exported.
C9_AsClaimed ==
    (lastOp.op = "exportLogs" /\ lastOp.format = <<"csv">> /\ file.called)
    => LET lines == Lines(file.content)
       IN  /\ Len(lines) = 1 + ExportedRows(logData, lastOp.sel)
           /\ \A i \in 1..Len(lines) :
                 /\ CSVParseLine(lines[i]).ok
                 /\ Len(CSVParseLine(lines[i]).cells) = 7

\* ---------------------------------------------- the claims on the binder

\* The key of the configuration record that each control is bound to.
KeyOf ==
    [ llm_type |-> "type", llm_api_key |-> "api_key", llm_model |-> "model",
      llm_temperature |-> "temperature", llm_max_tokens |-> "max_tokens",
      provider_tier |-> "current_provider_tier",
      enable_conservative_limits |-> "enable_conservative_limits",
      max_components_per_minute |-> "max_components_per_minute",
      delay_between_requests |-> "delay_between_requests",
      enable_batch_processing |-> "enable_batch_processing",
      batch_size |-> "batch_size",
      max_reader_search_attempts |-> "max_reader_search_attempts",
      max_verifier_rejections |-> "max_verifier_rejections",
      status_sleep_time |-> "status_sleep_time",
      overwrite_docstrings |-> "overwrite_docstrings" ]

\* The sections that are objects of fields (the tier is a value of its own).
ObjectSections == Sections \ {"current_provider_tier"}

\* What the record holds for the control f of its section k.
ValueFor(config, k, f) ==
    IF k = "current_provider_tier" THEN config[k] ELSE Get(config[k], KeyOf[f])

\* The value that the server's record stands for in the control f of section k: the
\* record's value, or the documented fallback where the record has none.
ServerValue(config, k, f) ==
    LET x == ValueFor(config, k, f) IN
    IF f \in {"enable_conservative_limits", "enable_batch_processing"}
    THEN ~(x.t = "bool" /\ ~x.v)
    ELSE IF f = "overwrite_docstrings" THEN Truthy(x)
    ELSE IF Truthy(x) THEN ToText(x) ELSE Fallback[f]

\* C5 as claimed: after applyConfigToForm of a record that misses a section, the
\* controls of the missing section hold their documented fallback values, whatever
\* the form held before.
C5_AsClaimed ==
    lastOp.op = "success"
    => \A k \in ObjectSections :
          lastOp.config[k].t = "undefined"
          => \A f \in FieldsOf[k] : form[f] = Fallback[f]

\* C5, amended: after applyConfigToForm of a record that misses a section, the
\* controls of the missing section hold the values they held before the call; a
\* fallback value is written only for a field that a present section does not hold.
C5_MissingSectionKept ==
    [][ lastOp'.op = "success"
        => \A k \in ObjectSections :
              IF lastOp'.config[k].t = "undefined"
              THEN \A f \in FieldsOf[k] : form'[f] = form[f]
              ELSE \A f \in FieldsOf[k] :
                      ValueFor(lastOp'.config, k, f).t = "undefined"
                      => form'[f] = Fallback[f] ]_vars

\* C5's case: the user has typed into a control of the llm section and a record
\* without that section has been applied.
C5_Witness ==
    /\ lastOp.op = "success"
    /\ lastOp.config.llm.t = "undefined"
    /\ lastOp.config.flow_control.t = "obj"
    /\ lastOp.prev.op = "edit"
    /\ lastOp.prev.field \in FieldsOf.llm
    /\ form[lastOp.prev.field] # Fallback[lastOp.prev.field]

\* A record that holds every section and every field.
IsFull(config) ==
    /\ \A k \in ObjectSections :
          /\ config[k].t = "obj"
          /\ \A key \in DOMAIN config[k].v : config[k].v[key].t # "undefined"
    /\ config.current_provider_tier.t = "str"

\* The value x as the numeric parsing of buildConfigFromForm coerces it.
Coerced(key, x) ==
    IF key \in {"temperature", "status_sleep_time"} THEN parseFloat(ToText(x))
    ELSE IF key \in {"max_tokens", "max_reader_search_attempts", "max_verifier_rejections",
                     "max_components_per_minute", "delay_between_requests", "batch_size"}
    THEN parseInt(ToText(x))
    ELSE x

\* C6 as claimed: buildConfigFromForm after applyConfigToForm(c), for a full record
\* c, returns c on every field, up to the coercion of numeric parsing.
C6_AsClaimed ==
    ( /\ lastOp.op = "buildConfigFromForm"
      /\ lastOp.prev.op = "success"
      /\ IsFull(lastOp.prev.config) )
    => LET c == lastOp.prev.config IN
       /\ built.v.current_provider_tier = c.current_provider_tier
       /\ \A k \in ObjectSections : \A key \in DOMAIN c[k].v :
             built.v[k].v[key] = Coerced(key, c[k].v[key])

\* C7: when the default-config request fails, a warning is shown, every control of
\* the form keeps its value and the limits display is not rendered again
\* (applyConfigToForm, which always renders it, does not run).
C7_ErrorKeepsForm ==
    [][ lastOp'.op = "error"
        => ( /\ form' = form
             /\ limitsDisplay' = limitsDisplay
             /\ \E i \in 1..Len(shown') : shown'[i].type = "warning" ) ]_vars

\* C7's case: the request failed after the user had edited the form while it was
\* in flight.
C7_Witness ==
    /\ lastOp.op = "error"
    /\ lastOp.prev.op = "edit"
    /\ lastOp.prev.inFlight
    /\ form # InitForm

\* C8: last write wins.  The success callback leaves every control of a section
\* that the answer holds at the server's value, whatever the user typed while the
\* request was in flight; an edit sets its control and nothing but an edit or a
\* success callback changes the form, so an edit made after the callback is kept.
C8_LastWriteWins ==
    [][ /\ lastOp'.op = "success"
           => \A k \in Sections :
                 Truthy(lastOp'.config[k])
                 => \A f \in FieldsOf[k] : form'[f] = ServerValue(lastOp'.config, k, f)
        /\ lastOp'.op = "edit"
           => /\ form'[lastOp'.field] =
                    (IF lastOp'.field \in CheckBoxes
                     THEN ~form[lastOp'.field] ELSE Typed[lastOp'.field])
              /\ \A g \in DOMAIN form : g # lastOp'.field => form'[g] = form[g]
        /\ lastOp'.op \notin {"success", "edit"} => form' = form ]_vars

\* C8's case: the user typed into a control while the request was in flight, and
\* the answer that then arrived has replaced what was typed.
C8_Witness ==
    /\ lastOp.op = "success"
    /\ lastOp.prev.op = "edit"
    /\ lastOp.prev.inFlight
    /\ lastOp.prev.field \in TextFields
    /\ form[lastOp.prev.field] # Typed[lastOp.prev.field]
\* ------------------------------------------------- claims: the counters

\* The number of entries of the log sequence with the given level.
CountLevel(logs, level) ==
    Cardinality({i \in 1..Len(logs) : logs[i].level = level})

\* C11: with no updateProcessingStats call that supplies errors or warnings, in every
\* state reached by the recorders, markProcessingComplete, exports and clears,
\* stats.errors is the number of log entries of level ERROR and stats.warnings is
\* the number of log entries of level WARNING.
C11_CountersMatchLogs ==
    /\ logData.stats.errors = CountLevel(logData.logs, <<"ERROR">>)
    /\ logData.stats.warnings = CountLevel(logData.logs, <<"WARNING">>)

\* C11's case: the log holds an ERROR entry, a WARNING entry and an entry of another
\* level, so that the counters are above zero and below the length of the log.
C11_Witness ==
    /\ logData.stats.errors >= 1
    /\ logData.stats.warnings >= 1
    /\ Len(logData.logs) > logData.stats.errors + logData.stats.warnings
====
